---- MODULE Spec2Model ----
(***************************************************************************)
(* Model of ps08/experiment.py: the driver build_motion_history_image with *)
(* the motion history builder it runs, and the nearest-neighbour matcher   *)
(* match_features.                                                         *)
(*                                                                         *)
(* The builder class (MotionHistoryBuilder) and compute_feature_difference *)
(* come from the module ps8, which experiment.py imports; they are         *)
(* modelled from sections 4.1, 4.2 and 4.4 of the specification.           *)
(*                                                                         *)
(* Real numbers are exact rationals [num, den]; a den of 0 is the NaN that *)
(* numpy produces for 0.0 / 0.0.                                           *)
(***************************************************************************)
EXTENDS Integers, Sequences, FiniteSets, TLC

\* ---------------------------------------------------------------- bounds
NumPixels == 2
MaxIntensity == 1
MaxFrames == 4
MaxTau == 2
MaxTheta == 1
MaxActions == 2
MaxParticipants == 2
MaxTrials == 1
FeatLen == 1
MaxFeat == 1
MaxQueries == 2
MaxGallery == 2

\* ---------------------------------------------------------------- values
\* Python's None for object-valued names: the empty tuple; a present value
\* v is the one-element tuple <<v>>.
None == <<>>

\* mhi_frame=None (the default): a frame number that frame_num never equals.
NoFrame == -1

\* np.inf, the initial min_diff.
Inf == -1

Pixels == 1..NumPixels
Frames == [Pixels -> 0..MaxIntensity]

Abs(x) == IF x < 0 THEN 0 - x ELSE x
Max(x, y) == IF x > y THEN x ELSE y

VARIABLES
    \* build_motion_history_image
    tau, theta,     \* kwargs passed on to the builder's constructor
    mhi_frame,      \* frame number to grab the MHI at, or NoFrame
    frame_num,
    frame,          \* the frame last read
    mhi_builder,    \* None or <<builder>>
    mhi,            \* None or <<MHI>>
    dpc,            \* position in build_motion_history_image
    \* history of the run (not program state)
    calls,          \* builder calls made: <<"construct", i>>, <<"process", i>>
    reads,          \* number of frames video.read() has delivered
    exhausted,      \* video.read() has reported the end of the video
    grabbed_at,     \* number of process calls made when get_MHI was called
    interrupted,    \* a KeyboardInterrupt was caught
    fed,            \* None or <<the frame last passed to process>>
    quiet,          \* per pixel: process calls without motion since the
                    \* last motion event there, -1 before the first one
    on_at,          \* per pixel: the frame number k at which it changed by
                    \* more than theta, if it has kept that intensity in
                    \* every frame processed since; else -1
    \* match_features
    a_items, b_items,   \* a_features_dict.items(), b_features_dict.items()
    n_actions,
    confusion_matrix,
    i, j,           \* position of the outer and of the inner loop
    min_diff, best_match,
    mpc,            \* position in match_features
    matches         \* history: <<a_key, best_match>> of every tallied query

dvars == <<tau, theta, mhi_frame, frame_num, frame, mhi_builder, mhi, dpc,
           calls, reads, exhausted, grabbed_at, interrupted, fed, quiet, on_at>>
mvars == <<a_items, b_items, n_actions, confusion_matrix, i, j, min_diff,
           best_match, mpc, matches>>
vars == <<dvars, mvars>>

\* ------------------------------------------------- motion history builder
\* Frame Differencer: mask = 1 where |current - previous| > theta.
differenceGE(previous, current, th) ==
    [p \in Pixels |-> IF Abs(current[p] - previous[p]) >= th THEN 1 ELSE 0]

difference(previous, current, th) ==
    [p \in Pixels |-> IF Abs(current[p] - previous[p]) > th THEN 1 ELSE 0]

\* construct(first_frame, theta, tau): H zero-filled; the first frame is the
\* previous frame of the first process call, which so sees no motion.
construct(first_frame, th, ta) ==
    [H |-> [p \in Pixels |-> 0], prev |-> first_frame, theta |-> th, tau |-> ta]

\* process(next_frame): H = tau where motion, else max(0, H - 1).
processNoClamp(b, next_frame) ==
    LET mask == difference(b.prev, next_frame, b.theta)
    IN  [b EXCEPT !.H = [p \in Pixels |->
                            IF mask[p] = 1 THEN b.tau ELSE b.H[p] - 1],
                  !.prev = next_frame]

process(b, next_frame) ==
    LET mask == difference(b.prev, next_frame, b.theta)
    IN  [b EXCEPT !.H = [p \in Pixels |->
                            IF mask[p] = 1 THEN b.tau ELSE Max(0, b.H[p] - 1)],
                  !.prev = next_frame]

\* get_MHI(): H / tau.
get_MHI(b) == [p \in Pixels |-> [num |-> b.H[p], den |-> b.tau]]

\* mei = np.uint8(mhi > 0), with tau > 0.
MEIGe(m) == [p \in Pixels |-> IF m[p].num >= 0 THEN 1 ELSE 0]

MEI(m) == [p \in Pixels |-> IF m[p].num > 0 THEN 1 ELSE 0]

\* ------------------------------------------- build_motion_history_image
MatchIdle ==
    /\ a_items = <<>> /\ b_items = <<>> /\ n_actions = 1
    /\ confusion_matrix = <<>> /\ i = 0 /\ j = 0
    /\ min_diff = Inf /\ best_match = None /\ mpc = "idle" /\ matches = <<>>

InitDriver ==
    /\ tau \in 1..MaxTau
    /\ theta \in 0..MaxTheta
    /\ mhi_frame \in {NoFrame} \cup (0..MaxFrames)
    /\ frame_num = 0
    /\ frame = [p \in Pixels |-> 0]
    /\ mhi_builder = None
    /\ mhi = None
    /\ dpc = "read"
    /\ calls = <<>>
    /\ reads = 0
    /\ exhausted = FALSE
    /\ grabbed_at = -1
    /\ interrupted = FALSE
    /\ fed = None
    /\ quiet = [p \in Pixels |-> -1]
    /\ on_at = [p \in Pixels |-> -1]
    /\ MatchIdle

\* okay, frame = video.read(); if not okay: break
\* The video delivers its next frame, or has no more frames.
ReadFrame ==
    /\ dpc = "read"
    /\ \/ /\ reads < MaxFrames
          /\ \E f \in Frames : frame' = f
          /\ reads' = reads + 1
          /\ dpc' = "init"
          /\ UNCHANGED exhausted
       \/ /\ exhausted' = TRUE
          /\ dpc' = "final"
          /\ UNCHANGED <<frame, reads>>
    /\ UNCHANGED <<tau, theta, mhi_frame, frame_num, mhi_builder, mhi,
                   calls, grabbed_at, interrupted, fed, quiet, on_at>>

\* if mhi_builder is None: mhi_builder = builder_class(frame, **kwargs)
InitBuilder ==
    /\ dpc = "init"
    /\ IF mhi_builder = None
         THEN /\ mhi_builder' = <<construct(frame, theta, tau)>>
              /\ calls' = Append(calls, <<"construct", reads - 1>>)
         ELSE UNCHANGED <<mhi_builder, calls>>
    /\ dpc' = "process"
    /\ UNCHANGED <<tau, theta, mhi_frame, frame_num, frame, mhi, reads,
                   exhausted, grabbed_at, interrupted, fed, quiet, on_at>>

\* the change of pixel p between the frame last processed and the frame read
Change(p) == IF fed = None THEN 0 ELSE Abs(frame[p] - fed[1][p])

\* motion_image = mhi_builder.process(frame)
ProcessFrame ==
    /\ dpc = "process"
    /\ mhi_builder' = <<process(mhi_builder[1], frame)>>
    /\ calls' = Append(calls, <<"process", reads - 1>>)
    /\ fed' = <<frame>>
    /\ quiet' = [p \in Pixels |->
                    IF Change(p) > theta THEN 0
                    ELSE IF quiet[p] < 0 THEN quiet[p]
                    ELSE quiet[p] + 1]
    /\ on_at' = [p \in Pixels |->
                    IF Change(p) > theta THEN reads - 1
                    ELSE IF Change(p) # 0 THEN -1
                    ELSE on_at[p]]
    /\ dpc' = "grab"
    /\ UNCHANGED <<tau, theta, mhi_frame, frame_num, frame, mhi, reads,
                   exhausted, grabbed_at, interrupted>>

NumProcessed == Cardinality({c \in 1..Len(calls) : calls[c][1] = "process"})

\* The same step with the break of line 71 left out.
GrabMHINoBreak ==
    /\ dpc = "grab"
    /\ IF frame_num = mhi_frame
         THEN /\ mhi' = <<get_MHI(mhi_builder[1])>>
              /\ grabbed_at' = NumProcessed
         ELSE UNCHANGED <<mhi, grabbed_at>>
    /\ frame_num' = frame_num + 1
    /\ dpc' = "read"
    /\ UNCHANGED <<tau, theta, mhi_frame, frame, mhi_builder, calls, reads,
                   exhausted, interrupted, fed, quiet, on_at>>

\* if frame_num == mhi_frame: mhi = mhi_builder.get_MHI(); break
\* frame_num += 1
GrabMHI ==
    /\ dpc = "grab"
    /\ IF frame_num = mhi_frame
         THEN /\ mhi' = <<get_MHI(mhi_builder[1])>>
              /\ grabbed_at' = NumProcessed
              /\ dpc' = "final"
              /\ UNCHANGED frame_num
         ELSE /\ frame_num' = frame_num + 1
              /\ dpc' = "read"
              /\ UNCHANGED <<mhi, grabbed_at>>
    /\ UNCHANGED <<tau, theta, mhi_frame, frame, mhi_builder, calls, reads,
                   exhausted, interrupted, fed, quiet, on_at>>

\* except KeyboardInterrupt: break   (anywhere in the try block)
KeyboardInterrupt ==
    /\ dpc \in {"read", "init", "process", "grab"}
    /\ dpc' = "final"
    /\ interrupted' = TRUE
    /\ UNCHANGED <<tau, theta, mhi_frame, frame_num, frame, mhi_builder, mhi,
                   calls, reads, exhausted, grabbed_at, fed, quiet, on_at>>

\* if mhi is None: mhi = mhi_builder.get_MHI()   (AttributeError on None)
\* return mhi
Finish ==
    /\ dpc = "final"
    /\ IF mhi # None
         THEN /\ dpc' = "returned"
              /\ UNCHANGED <<mhi, grabbed_at>>
         ELSE IF mhi_builder = None
           THEN /\ dpc' = "raised"
                /\ UNCHANGED <<mhi, grabbed_at>>
           ELSE /\ mhi' = <<get_MHI(mhi_builder[1])>>
                /\ grabbed_at' = NumProcessed
                /\ dpc' = "returned"
    /\ UNCHANGED <<tau, theta, mhi_frame, frame_num, frame, mhi_builder,
                   calls, reads, exhausted, interrupted, fed, quiet, on_at>>

NextDriver ==
    /\ \/ ReadFrame
       \/ InitBuilder
       \/ ProcessFrame
       \/ GrabMHI
       \/ KeyboardInterrupt
       \/ Finish
    /\ UNCHANGED mvars

SpecDriver == InitDriver /\ [][NextDriver]_vars

\* ------------------------------------------------------------ match_features
Features == [1..FeatLen -> 0..MaxFeat]
KeysOf(n) == (1..n) \X (1..MaxParticipants) \X (1..MaxTrials)
EntriesOf(n) == [key : KeysOf(n), features : Features]

\* dict.items() of a dict whose keys are identities of actions 1..n: entries
\* with pairwise distinct keys, in the dict's iteration order.
ItemsOf(n, maxLen) ==
    {s \in UNION {[1..l -> EntriesOf(n)] : l \in 0..maxLen} :
        \A x, y \in 1..Len(s) : x # y => s[x].key # s[y].key}

RECURSIVE SumSq(_, _, _)
SumSq(u, v, k) ==
    IF k = 0 THEN 0
    ELSE (u[k] - v[k]) * (u[k] - v[k]) + SumSq(u, v, k - 1)

\* Euclidean distance between two descriptors, kept as its square: the
\* matcher only compares distances, and squaring preserves their order.
compute_feature_difference(a_features, b_features) ==
    SumSq(a_features, b_features, FeatLen)

\* if a_key == b_key: continue
SkipNever(a_key, b_key) == FALSE

SkipSelf(a_key, b_key) == a_key = b_key

\* if diff < min_diff   (min_diff starts at np.inf)
BetterOrEqual(diff, md) == md = Inf \/ diff <= md

Better(diff, md) == md = Inf \/ diff < md

\* np.zeros((n_actions, n_actions))
ZeroMatrix(n) == [r \in 1..n |-> [c \in 1..n |-> [num |-> 0, den |-> 1]]]

\* if best_match is not None: confusion_matrix[a_key[0]-1, best_match[0]-1] += 1
TallyAlways(cm, a_key, best) ==
    LET c == IF best = None THEN a_key[1] ELSE best[1]
    IN  [cm EXCEPT ![a_key[1]][c].num = @ + 1]

Tally(cm, a_key, best) ==
    IF best # None
      THEN [cm EXCEPT ![a_key[1]][best[1]].num = @ + 1]
      ELSE cm

RECURSIVE SumNum(_, _)
SumNum(cells, k) == IF k = 0 THEN 0 ELSE cells[k].num + SumNum(cells, k - 1)

\* confusion_matrix.sum(axis=1): the sum of each row of counts
RowSum(cm, r) == SumNum(cm[r], Len(cm[r]))
ColSum(cm, c) == SumNum([r \in 1..Len(cm) |-> cm[r][c]], Len(cm))

\* confusion_matrix /= confusion_matrix.sum(axis=1)[:, np.newaxis]
NormalizeByColumn(cm) ==
    [r \in 1..Len(cm) |-> [c \in 1..Len(cm[r]) |->
        [num |-> cm[r][c].num, den |-> cm[r][c].den * ColSum(cm, c)]]]

Normalize(cm) ==
    [r \in 1..Len(cm) |-> [c \in 1..Len(cm[r]) |->
        [num |-> cm[r][c].num, den |-> cm[r][c].den * RowSum(cm, r)]]]

DriverIdle ==
    /\ tau = 1 /\ theta = 0 /\ mhi_frame = NoFrame
    /\ frame_num = 0 /\ frame = [p \in Pixels |-> 0]
    /\ mhi_builder = None /\ mhi = None /\ dpc = "idle"
    /\ calls = <<>> /\ reads = 0 /\ exhausted = FALSE /\ grabbed_at = -1
    /\ interrupted = FALSE /\ fed = None
    /\ quiet = [p \in Pixels |-> -1] /\ on_at = [p \in Pixels |-> -1]

InitMatch ==
    /\ n_actions \in 1..MaxActions
    /\ a_items \in ItemsOf(n_actions, MaxQueries)
    /\ b_items \in ItemsOf(n_actions, MaxGallery)
    /\ confusion_matrix = ZeroMatrix(n_actions)
    /\ i = 0
    /\ j = 0
    /\ min_diff = Inf
    /\ best_match = None
    /\ mpc = "outer"
    /\ matches = <<>>
    /\ DriverIdle

\* for a_key, a_features in a_features_dict.items():
\*     min_diff = np.inf; best_match = None
NextQuery ==
    /\ mpc = "outer"
    /\ IF i < Len(a_items)
         THEN /\ i' = i + 1
              /\ j' = 0
              /\ min_diff' = Inf
              /\ best_match' = None
              /\ mpc' = "inner"
         ELSE /\ mpc' = "normalize"
              /\ UNCHANGED <<i, j, min_diff, best_match>>
    /\ UNCHANGED <<a_items, b_items, n_actions, confusion_matrix, matches>>

\* for b_key, b_features in b_features_dict.items(): one iteration
CompareEntry ==
    /\ mpc = "inner"
    /\ j < Len(b_items)
    /\ j' = j + 1
    /\ LET a == a_items[i]
           b == b_items[j + 1]
           diff == compute_feature_difference(a.features, b.features)
       IN  IF SkipSelf(a.key, b.key)
             THEN UNCHANGED <<min_diff, best_match>>
             ELSE IF Better(diff, min_diff)
               THEN /\ min_diff' = diff
                    /\ best_match' = b.key
               ELSE UNCHANGED <<min_diff, best_match>>
    /\ UNCHANGED <<a_items, b_items, n_actions, confusion_matrix, i, mpc,
                   matches>>

\* after the inner loop: tally the query's match, if it has one
TallyQuery ==
    /\ mpc = "inner"
    /\ j = Len(b_items)
    /\ confusion_matrix' = Tally(confusion_matrix, a_items[i].key, best_match)
    /\ matches' = IF confusion_matrix' # confusion_matrix
                    THEN Append(matches, <<a_items[i].key, best_match>>)
                    ELSE matches
    /\ mpc' = "outer"
    /\ UNCHANGED <<a_items, b_items, n_actions, i, j, min_diff, best_match>>

\* normalize confusion_matrix along each row; return confusion_matrix
NormalizeRows ==
    /\ mpc = "normalize"
    /\ confusion_matrix' = Normalize(confusion_matrix)
    /\ mpc' = "done"
    /\ UNCHANGED <<a_items, b_items, n_actions, i, j, min_diff, best_match,
                   matches>>

NextMatch ==
    /\ \/ NextQuery
       \/ CompareEntry
       \/ TallyQuery
       \/ NormalizeRows
    /\ UNCHANGED dvars

SpecMatch == InitMatch /\ [][NextMatch]_vars

\* ================================================================ claims
\* ----- helpers of the claims
RatAdd(x, y) == [num |-> x.num * y.den + y.num * x.den, den |-> x.den * y.den]

RECURSIVE RatSum(_, _)
RatSum(cells, k) ==
    IF k = 0 THEN [num |-> 0, den |-> 1]
    ELSE RatAdd(RatSum(cells, k - 1), cells[k])

RatIsOne(x) == x.den # 0 /\ x.num = x.den
RatIsNaN(x) == x.den = 0
RatInUnit(x) == x.den > 0 /\ 0 <= x.num /\ x.num <= x.den
RatPositive(x) == x.den > 0 /\ x.num > 0

\* the gallery position k is eligible for the query at position q
Eligible(q, k) == b_items[k].key # a_items[q].key
HasEligible(q) == \E k \in 1..Len(b_items) : Eligible(q, k)
Dist(q, k) == compute_feature_difference(a_items[q].features, b_items[k].features)

\* the key of the first eligible gallery entry, among the first n entries,
\* at minimum distance from query q; None when none is eligible
FirstMinimum(q, n) ==
    LET el == {k \in 1..n : Eligible(q, k)}
    IN  IF el = {} THEN None
        ELSE b_items[CHOOSE k \in el :
                        /\ \A l \in el : Dist(q, k) <= Dist(q, l)
                        /\ \A l \in el : l < k => Dist(q, l) > Dist(q, k)].key

RowMatched(r) == \E m \in 1..Len(matches) : matches[m][1][1] = r

\* ----- match_features
\* C1: the gallery key chosen as best_match is never the query's own key, and
\* no tallied count pairs a query with the entry of the same key.
C1_NoSelfMatch ==
    /\ mpc = "inner" => best_match # a_items[i].key
    /\ \A m \in 1..Len(matches) : matches[m][1] # matches[m][2]

\* leave-one-out: both arguments are the same dict, and queries were tallied
C1_Witness ==
    /\ mpc = "done"
    /\ a_items = b_items
    /\ Len(matches) >= 2

\* C2: in the returned matrix every row whose true action received at least
\* one match sums to 1, whatever the other rows contain.
C2_MatchedRowsSumToOne ==
    mpc = "done" =>
        \A r \in 1..n_actions :
            RowMatched(r) => RatIsOne(RatSum(confusion_matrix[r], n_actions))

\* a matched row next to a row that received no match
C2_Witness ==
    /\ mpc = "done"
    /\ \E r, r2 \in 1..n_actions :
          /\ RowMatched(r)
          /\ ~RowMatched(r2)
          /\ \E c \in 1..n_actions :
                confusion_matrix[r][c].num > 0 /\ confusion_matrix[r][c].den > 1

\* C3: no row of the returned matrix was divided by a zero row sum.
C3_NoDivisionByZeroSum ==
    mpc = "done" =>
        \A r, c \in 1..n_actions : ~RatIsNaN(confusion_matrix[r][c])

\* C7: a query with no gallery entry of a different key adds no count, and
\* every other query adds exactly one to the row of its action; the call
\* reaches its return.
C7_SkippedQueryAddsNothing ==
    /\ mpc \in {"outer", "inner", "normalize", "done"}
    /\ mpc = "done" =>
          \A r \in 1..n_actions :
              SumNum(confusion_matrix[r], n_actions) =
                  Cardinality({q \in 1..Len(a_items) :
                                  a_items[q].key[1] = r /\ HasEligible(q)})

\* a skipped query followed by a tallied one, and the call returned
C7_Witness ==
    /\ mpc = "done"
    /\ Len(a_items) = 2
    /\ ~HasEligible(1)
    /\ HasEligible(2)
    /\ Len(matches) = 1

\* C9: throughout the scan, best_match is the first eligible gallery key at
\* minimum distance among the entries scanned so far.
C9_FirstMinimumWins ==
    mpc = "inner" => best_match = FirstMinimum(i, j)

\* two eligible entries tie at the minimum; the first one is kept
C9_Witness ==
    /\ mpc = "inner"
    /\ j = 2
    /\ Eligible(i, 1) /\ Eligible(i, 2)
    /\ Dist(i, 1) = Dist(i, 2)
    /\ best_match = b_items[1].key

\* ----- motion history builder
\* C4: a pixel whose last motion event is at least tau process calls back
\* has history value 0, and no history value is negative.
C4_DecaysToZero ==
    mhi_builder # None =>
        \A p \in Pixels :
            /\ mhi_builder[1].H[p] >= 0
            /\ (quiet[p] >= 0 /\ quiet[p] >= tau) => mhi_builder[1].H[p] = 0

\* a pixel went from tau > 1 down to 0, and one stayed at 0 one call longer
C4_Witness ==
    /\ mhi_builder # None
    /\ \E p \in Pixels :
          /\ mhi_builder[1].H[p] = 0
          /\ \/ quiet[p] = tau /\ tau > 1
             \/ quiet[p] > tau

\* C5 as stated: a pixel that changed by more than theta at frame k and has
\* kept the new intensity since has H = tau after every frame >= k.
C5_StaysAtTau ==
    mhi_builder # None =>
        \A p \in Pixels :
            on_at[p] >= 0 => mhi_builder[1].H[p] = tau

\* C5 amended: after frame j >= k, H[pixel] = max(0, tau - (j - k)); it is
\* tau (MHI = 1.0) after frame k only.
C5_DecaysFromTau ==
    mhi_builder # None =>
        \A p \in Pixels :
            on_at[p] >= 0 =>
                mhi_builder[1].H[p] = Max(0, tau - (NumProcessed - 1 - on_at[p]))

\* the pixel turned on, later frames were processed and H went below tau
C5_Witness ==
    /\ mhi_builder # None
    /\ \E p \in Pixels :
          /\ on_at[p] >= 1
          /\ NumProcessed - 1 > on_at[p]
          /\ mhi_builder[1].H[p] < tau

\* C6: every cell of get_MHI() is in [0, 1], and the MEI derived from it has
\* cells in {0, 1}, 1 exactly where the MHI is positive.
C6_MHIandMEIRanges ==
    mhi_builder # None =>
        LET m == get_MHI(mhi_builder[1])
        IN  \A p \in Pixels :
                /\ RatInUnit(m[p])
                /\ MEI(m)[p] \in {0, 1}
                /\ MEI(m)[p] = 1 <=> RatPositive(m[p])

\* an MHI with a cell strictly between 0 and 1 next to a cell at 0
C6_Witness ==
    /\ mhi_builder # None
    /\ NumProcessed >= 2
    /\ \E p, q \in Pixels :
          /\ mhi_builder[1].H[p] > 0 /\ mhi_builder[1].H[p] < tau
          /\ mhi_builder[1].H[q] = 0

\* ----- build_motion_history_image
\* C8: however the frame loop ends, the function does not raise.
C8_NeverRaises == dpc # "raised"

\* C10: without interrupts the builder is constructed once from frame 0
\* before any process call, frames 0 .. m-1 are processed in order, each
\* once, and the MHI is taken after exactly m process calls with no further
\* read, m = min(mhi_frame + 1, N), or N when mhi_frame is None.  N is known
\* once the video is exhausted, and then mhi_frame + 1 > N; an early stop is
\* at mhi_frame + 1 <= N.
C10_ProcessCallsBeforeMHI ==
    (dpc = "returned" /\ ~interrupted) =>
        LET m == IF exhausted THEN reads ELSE mhi_frame + 1
        IN  /\ exhausted => (mhi_frame = NoFrame \/ mhi_frame + 1 > reads)
            /\ calls = <<<<"construct", 0>>>> \o
                            [x \in 1..m |-> <<"process", x - 1>>]
            /\ grabbed_at = m
            /\ reads = m
            /\ mhi = <<get_MHI(mhi_builder[1])>>

\* an early stop at mhi_frame, after more than one frame
C10_Witness ==
    /\ dpc = "returned"
    /\ ~interrupted
    /\ ~exhausted
    /\ mhi_frame >= 1
    /\ grabbed_at = mhi_frame + 1

====
